---- MODULE Spec2Model ----
(***************************************************************************)
(* MaskQL: a dirty-tracking write-back session over a flat (obj_id,        *)
(* key_path) table, with the value codec and the flatten/unflatten codec.  *)
(*                                                                         *)
(* JavaScript strings are modelled as sequences of one-character strings,  *)
(* so that prefix/suffix tests, splitting and number formatting are        *)
(* computed the way the code computes them.                                *)
(***************************************************************************)
EXTENDS Integers, Sequences, FiniteSets, TLC

(***************************************************************************)
(* Bounds of the model                                                     *)
(***************************************************************************)
\* numbers a caller passes to set() / finds in the store are 1..MaxNum
MaxNum == 2
\* SpecTwo: set/delete calls a session makes between its use() and its save()
MaxCalls == 2
\* SpecFlat: nesting depth of the objects given to flatten
MaxDepth == 2
\* SpecArr: arrays and objects created in one behaviour
MaxAllocs == 3

(***************************************************************************)
(* JavaScript values                                                       *)
(***************************************************************************)
Undefined == [t |-> "undefined"]
Null == [t |-> "null"]
Bool(b) == [t |-> "boolean", v |-> b]
Num(n) == [t |-> "number", v |-> n]
Str(s) == [t |-> "string", v |-> s]
\* an array: v is the sequence of its elements
Arr(es) == [t |-> "array", v |-> es]
\* a plain object: v is the sequence of <<key, value>> pairs in the
\* object's own key enumeration order
Obj(kvs) == [t |-> "object", v |-> kvs]
\* Object.prototype.constructor, the value every plain object inherits
\* under the name "constructor"
ObjectFunction == [t |-> "function"]

\* the name "constructor", inherited by every object literal {}
ConstructorName == <<"c", "o", "n", "s", "t", "r", "u", "c", "t", "o", "r">>

\* names that `in` and property reads find on an empty object literal
ObjectPrototypeNames == {ConstructorName}

\* String(Object.prototype.constructor)
ObjectFunctionText == <<"f", "u", "n", "c", "t", "i", "o", "n", " ", "O", "b", "j", "e", "c", "t", "(", ")", " ", "{", " ", "[", "n", "a", "t", "i", "v", "e", " ", "c", "o", "d", "e", "]", " ", "}">>

\* a comparison of the types only
SameType(a, b) == a.t = b.t

\* a === b.  Primitives (and the one inherited function) are identical when
\* they are equal; an array or object carries its identity in the field ref
\* (see WithRef), and every alias of one ref holds the same contents, so
\* equality of the records is identity
StrictEquals(a, b) == a = b

\* an array or object value as the object with identity r; a primitive has
\* no identity
WithRef(value, r) ==
  IF value.t \in {"array", "object"}
  THEN [t |-> value.t, v |-> value.v, ref |-> r]
  ELSE value

(***************************************************************************)
(* Flat objects (flatData, originalFlatData, one object's store rows):     *)
(* functions whose domain is the set of own keys                           *)
(***************************************************************************)
EmptyObject == [p \in {} |-> Undefined]

\* Object.keys(obj)
Keys(obj) == DOMAIN obj

\* key in obj: own keys and the names inherited from Object.prototype
HasIn(obj, key) == key \in DOMAIN obj \/ key \in ObjectPrototypeNames

\* obj[key]: own value, else the inherited value, else undefined
GetProp(obj, key) ==
  IF key \in DOMAIN obj THEN obj[key]
  ELSE IF key \in ObjectPrototypeNames THEN ObjectFunction
  ELSE Undefined

\* obj[key] = value
PutProp(obj, key, value) ==
  [q \in (DOMAIN obj) \cup {key} |-> IF q = key THEN value ELSE obj[q]]

\* delete obj[key]
DeleteProp(obj, key) == [q \in (DOMAIN obj) \ {key} |-> obj[q]]

(***************************************************************************)
(* String helpers                                                          *)
(***************************************************************************)
WhitespaceChars == {" "}

\* s.startsWith(pre)
StartsWith(s, pre) == Len(s) >= Len(pre) /\ SubSeq(s, 1, Len(pre)) = pre

\* s.endsWith(suf)
EndsWith(s, suf) ==
  Len(s) >= Len(suf) /\ SubSeq(s, Len(s) - Len(suf) + 1, Len(s)) = suf

\* s.includes(sub)
Includes(s, sub) ==
  \E i \in 1..(Len(s) - Len(sub) + 1) : SubSeq(s, i, i + Len(sub) - 1) = sub

\* s.trim() !== s
TrimDiffers(s) ==
  Len(s) > 0 /\ (s[1] \in WhitespaceChars \/ s[Len(s)] \in WhitespaceChars)

DigitChars == <<"0", "1", "2", "3", "4", "5", "6", "7", "8", "9">>

IsDigit(c) == \E d \in 1..10 : DigitChars[d] = c

DigitValue(c) == (CHOOSE d \in 1..10 : DigitChars[d] = c) - 1

\* String(n) for a non-negative integer
RECURSIVE NumberToString(_)
NumberToString(n) ==
  IF n < 10 THEN <<DigitChars[n + 1]>>
  ELSE NumberToString(n \div 10) \o <<DigitChars[(n % 10) + 1]>>

RECURSIVE DigitsValue(_)
DigitsValue(s) ==
  IF Len(s) = 0 THEN 0
  ELSE 10 * DigitsValue(SubSeq(s, 1, Len(s) - 1)) + DigitValue(s[Len(s)])

\* Number(s) is NaN (only non-negative decimal integers are numbers here)
IsNaNText(s) == Len(s) = 0 \/ \E i \in 1..Len(s) : ~IsDigit(s[i])

TrueText == <<"t", "r", "u", "e">>
FalseText == <<"f", "a", "l", "s", "e">>
NullText == <<"n", "u", "l", "l">>
EmptyText == <<>>
EmptyObjectText == <<"{", "}">>

(***************************************************************************)
(* JSON text.  Exact for texts whose numbers are non-negative decimal      *)
(* integers and whose strings hold no quote or backslash.                  *)
(***************************************************************************)
\* join the texts of seq with "," between them
RECURSIVE JoinComma(_)
JoinComma(texts) ==
  IF Len(texts) = 0 THEN <<>>
  ELSE IF Len(texts) = 1 THEN texts[1]
  ELSE texts[1] \o <<",">> \o JoinComma(Tail(texts))

\* the pairs of an object that JSON.stringify writes (it skips undefined
\* and function values)
RECURSIVE StringifiedPairs(_)
StringifiedPairs(kvs) ==
  IF Len(kvs) = 0 THEN <<>>
  ELSE IF kvs[1][2].t \in {"undefined", "function"}
       THEN StringifiedPairs(Tail(kvs))
       ELSE <<kvs[1]>> \o StringifiedPairs(Tail(kvs))

\* JSON.stringify(value), for a value that is not undefined
RECURSIVE JSONStringify(_)
JSONStringify(value) ==
  CASE value.t = "null" -> NullText
    [] value.t = "boolean" -> IF value.v THEN TrueText ELSE FalseText
    [] value.t = "number" -> NumberToString(value.v)
    [] value.t = "string" -> <<"\"">> \o value.v \o <<"\"">>
    [] value.t = "array" ->
         <<"[">> \o
         JoinComma([i \in 1..Len(value.v) |->
                      IF value.v[i].t \in {"undefined", "function"}
                      THEN NullText ELSE JSONStringify(value.v[i])]) \o
         <<"]">>
    [] value.t = "object" ->
         LET kvs == StringifiedPairs(value.v) IN
         <<"{">> \o
         JoinComma([i \in 1..Len(kvs) |->
                      <<"\"">> \o kvs[i][1] \o <<"\"", ":">> \o
                      JSONStringify(kvs[i][2])]) \o
         <<"}">>
    [] OTHER -> NullText

\* drop leading JSON whitespace
RECURSIVE SkipWs(_)
SkipWs(s) ==
  IF Len(s) > 0 /\ s[1] \in WhitespaceChars THEN SkipWs(Tail(s)) ELSE s

\* length of the longest prefix of s made of digits
RECURSIVE DigitRun(_)
DigitRun(s) ==
  IF Len(s) > 0 /\ IsDigit(s[1]) THEN 1 + DigitRun(Tail(s)) ELSE 0

\* position of the first quote in s, 0 when there is none
RECURSIVE QuotePos(_, _)
QuotePos(s, i) ==
  IF i > Len(s) THEN 0
  ELSE IF s[i] = "\"" THEN i
  ELSE QuotePos(s, i + 1)

ParseFail == [ok |-> FALSE, val |-> Null, rest |-> <<>>]

\* obj[key] = value on a sequence of pairs: a repeated key keeps its place
SetPair(kvs, key, value) ==
  IF \E i \in 1..Len(kvs) : kvs[i][1] = key
  THEN [i \in 1..Len(kvs) |->
          IF kvs[i][1] = key THEN <<key, value>> ELSE kvs[i]]
  ELSE Append(kvs, <<key, value>>)

RECURSIVE ParseValue(_), ParseElements(_, _), ParseMembers(_, _)

\* one JSON value at the head of s (leading whitespace already skipped)
ParseValue(s) ==
  IF Len(s) = 0 THEN ParseFail
  ELSE IF s[1] = "[" THEN
    LET r == SkipWs(Tail(s)) IN
    IF Len(r) > 0 /\ r[1] = "]"
    THEN [ok |-> TRUE, val |-> Arr(<<>>), rest |-> Tail(r)]
    ELSE ParseElements(r, <<>>)
  ELSE IF s[1] = "{" THEN
    LET r == SkipWs(Tail(s)) IN
    IF Len(r) > 0 /\ r[1] = "}"
    THEN [ok |-> TRUE, val |-> Obj(<<>>), rest |-> Tail(r)]
    ELSE ParseMembers(r, <<>>)
  ELSE IF s[1] = "\"" THEN
    LET q == QuotePos(s, 2) IN
    IF q = 0 THEN ParseFail
    ELSE [ok |-> TRUE, val |-> Str(SubSeq(s, 2, q - 1)),
          rest |-> SubSeq(s, q + 1, Len(s))]
  ELSE IF IsDigit(s[1]) THEN
    LET n == IF s[1] = "0" THEN 1 ELSE DigitRun(s) IN
    [ok |-> TRUE, val |-> Num(DigitsValue(SubSeq(s, 1, n))),
     rest |-> SubSeq(s, n + 1, Len(s))]
  ELSE IF StartsWith(s, TrueText) THEN
    [ok |-> TRUE, val |-> Bool(TRUE), rest |-> SubSeq(s, 5, Len(s))]
  ELSE IF StartsWith(s, FalseText) THEN
    [ok |-> TRUE, val |-> Bool(FALSE), rest |-> SubSeq(s, 6, Len(s))]
  ELSE IF StartsWith(s, NullText) THEN
    [ok |-> TRUE, val |-> Null, rest |-> SubSeq(s, 5, Len(s))]
  ELSE ParseFail

\* the elements of an array after "[", up to and including "]"
ParseElements(s, acc) ==
  LET e == ParseValue(s) IN
  IF ~e.ok THEN ParseFail
  ELSE LET r == SkipWs(e.rest) IN
    IF Len(r) = 0 THEN ParseFail
    ELSE IF r[1] = "," THEN ParseElements(SkipWs(Tail(r)), Append(acc, e.val))
    ELSE IF r[1] = "]"
      THEN [ok |-> TRUE, val |-> Arr(Append(acc, e.val)), rest |-> Tail(r)]
    ELSE ParseFail

\* the members of an object after "{", up to and including "}"
ParseMembers(s, acc) ==
  IF Len(s) = 0 \/ s[1] # "\"" THEN ParseFail
  ELSE LET k == ParseValue(s)
           c == SkipWs(k.rest) IN
    IF ~k.ok \/ Len(c) = 0 \/ c[1] # ":" THEN ParseFail
    ELSE LET e == ParseValue(SkipWs(Tail(c))) IN
      IF ~e.ok THEN ParseFail
      ELSE LET r == SkipWs(e.rest)
               next == SetPair(acc, k.val.v, e.val) IN
        IF Len(r) = 0 THEN ParseFail
        ELSE IF r[1] = "," THEN ParseMembers(SkipWs(Tail(r)), next)
        ELSE IF r[1] = "}"
          THEN [ok |-> TRUE, val |-> Obj(next), rest |-> Tail(r)]
        ELSE ParseFail

\* JSON.parse(text): ok is FALSE where JSON.parse throws
JSONParse(text) ==
  LET r == ParseValue(SkipWs(text)) IN
  IF r.ok /\ Len(SkipWs(r.rest)) = 0
  THEN [ok |-> TRUE, val |-> r.val]
  ELSE [ok |-> FALSE, val |-> Null]

(***************************************************************************)
(* types.js: type tags and the storage codec                               *)
(***************************************************************************)
\* getValueType(value)
getValueType(value) ==
  IF value.t = "null" THEN "null"
  ELSE IF value.t = "undefined" THEN "undefined"
  ELSE IF value.t = "array" THEN "array"
  ELSE IF value.t = "object" THEN "object"
  ELSE value.t

\* String(value) for the values that reach serializeValue's default branch
StringOf(value) ==
  IF value.t = "function" THEN ObjectFunctionText ELSE JSONStringify(value)

\* serializeValue(value)
serializeValue(value) ==
  IF value.t = "null" \/ value.t = "undefined" THEN EmptyText
  ELSE LET type == getValueType(value) IN
    CASE type = "string" -> value.v
      [] type = "number" -> NumberToString(value.v)
      [] type = "boolean" -> IF value.v THEN TrueText ELSE FalseText
      [] type \in {"array", "object"} -> JSONStringify(value)
      [] OTHER -> StringOf(value)

\* deserializeValue(serialized, valueType)
deserializeValue(serialized, valueType) ==
  IF valueType = "null" \/ serialized = EmptyText THEN Null
  ELSE IF valueType = "undefined" THEN Undefined
  ELSE IF valueType = "string" THEN Str(serialized)
  ELSE IF valueType = "number" THEN
    IF IsNaNText(serialized) THEN Num(0) ELSE Num(DigitsValue(serialized))
  ELSE IF valueType = "boolean" THEN Bool(serialized = TrueText)
  ELSE IF valueType \in {"array", "object"} THEN
    LET r == JSONParse(serialized) IN
    IF r.ok THEN r.val
    ELSE IF valueType = "array" THEN Arr(<<>>) ELSE Obj(<<>>)
  ELSE Str(serialized)

\* toStorageFormat(value): the (value, value_type) columns of a row
toStorageFormat(value) ==
  [value |-> serializeValue(value), type |-> getValueType(value)]

\* fromStorageFormat(value, type)
fromStorageFormat(value, type) == deserializeValue(value, type)

\* a path check that accepts consecutive dots
isValidPathNoDotDot(path) ==
  IF Len(path) = 0 THEN FALSE
  ELSE IF TrimDiffers(path) THEN FALSE
  ELSE IF StartsWith(path, <<".">>) \/ EndsWith(path, <<".">>) THEN FALSE
  ELSE TRUE

\* isValidPath(path)
isValidPath(path) ==
  IF Len(path) = 0 THEN FALSE
  ELSE IF TrimDiffers(path) THEN FALSE
  ELSE IF StartsWith(path, <<".">>) \/ EndsWith(path, <<".">>) THEN FALSE
  ELSE IF Includes(path, <<".", ".">>) THEN FALSE
  ELSE TRUE

\* isValidObjId(objId)
isValidObjId(objId) ==
  IF Len(objId) = 0 THEN FALSE
  ELSE IF TrimDiffers(objId) THEN FALSE
  ELSE IF Len(objId) > 255 THEN FALSE
  ELSE TRUE

(***************************************************************************)
(* flatten.js.  A flat mapping under construction is a sequence of         *)
(* <<path, leaf>> pairs in insertion order, as the JS object `result` is.  *)
(***************************************************************************)
\* `${prefix}.${key}` when prefix is non-empty, else key
JoinPath(prefix, key) ==
  IF Len(prefix) > 0 THEN prefix \o <<".">> \o key ELSE key

RECURSIVE flattenInto(_, _, _), flattenKeys(_, _, _)

\* flatten(obj, prefix, result)
flattenInto(obj, prefix, result) ==
  IF obj.t = "null" \/ obj.t = "undefined" THEN
    IF Len(prefix) > 0 THEN SetPair(result, prefix, Str(EmptyText))
    ELSE result
  ELSE IF obj.t \notin {"object", "array"} THEN
    IF Len(prefix) > 0 THEN SetPair(result, prefix, obj) ELSE result
  ELSE IF obj.t = "array" THEN
    IF Len(prefix) > 0 THEN SetPair(result, prefix, Str(JSONStringify(obj)))
    ELSE result
  ELSE IF Len(obj.v) = 0 THEN
    IF Len(prefix) > 0 THEN SetPair(result, prefix, Str(EmptyObjectText))
    ELSE result
  ELSE flattenKeys(obj.v, prefix, result)

\* the for loop of flatten over the remaining keys of an object
flattenKeys(kvs, prefix, result) ==
  IF Len(kvs) = 0 THEN result
  ELSE
    LET newPrefix == JoinPath(prefix, kvs[1][1])
        value == kvs[1][2]
        step ==
          IF value.t = "null" \/ value.t = "undefined"
            THEN SetPair(result, newPrefix, Str(EmptyText))
          ELSE IF value.t = "array"
            THEN SetPair(result, newPrefix, Str(JSONStringify(value)))
          ELSE IF value.t = "object" THEN
            IF Len(value.v) = 0
            THEN SetPair(result, newPrefix, Str(EmptyObjectText))
            ELSE flattenInto(value, newPrefix, result)
          ELSE SetPair(result, newPrefix, value)
    IN flattenKeys(Tail(kvs), prefix, step)

\* flatten(obj)
flatten(obj) == flattenInto(obj, <<>>, <<>>)

\* path.split('.')
RECURSIVE SplitDots(_, _)
SplitDots(s, cur) ==
  IF Len(s) = 0 THEN <<cur>>
  ELSE IF s[1] = "." THEN <<cur>> \o SplitDots(Tail(s), <<>>)
  ELSE SplitDots(Tail(s), Append(cur, s[1]))

\* parseValue(value)
parseValue(value) ==
  IF value = Str(EmptyText) THEN Null
  ELSE IF value.t # "string" THEN value
  ELSE IF value.v = EmptyObjectText THEN Obj(<<>>)
  ELSE IF (StartsWith(value.v, <<"[">>) /\ EndsWith(value.v, <<"]">>)) \/
          (StartsWith(value.v, <<"{">>) /\ EndsWith(value.v, <<"}">>)) THEN
    LET r == JSONParse(value.v) IN IF r.ok THEN r.val ELSE value
  ELSE value

\* current[key] on a nested object node (own pair, else inherited)
NodeGet(kvs, key) ==
  IF \E i \in 1..Len(kvs) : kvs[i][1] = key
  THEN kvs[CHOOSE i \in 1..Len(kvs) : kvs[i][1] = key][2]
  ELSE IF key \in ObjectPrototypeNames THEN ObjectFunction
  ELSE Undefined

\* !value
Falsy(value) ==
  \/ value.t \in {"null", "undefined"}
  \/ value = Num(0)
  \/ value = Str(EmptyText)
  \/ value = Bool(FALSE)

\* the named properties of a node that `current` can point at: the pairs of
\* an object, or the properties added to an array
NodeProps(node) ==
  IF node.t = "object" THEN node.v
  ELSE IF "props" \in DOMAIN node THEN node.props ELSE <<>>

WithProps(node, kvs) ==
  IF node.t = "object" THEN Obj(kvs)
  ELSE [t |-> "array", v |-> node.v, props |-> kvs]

\* the inner loop of unflatten: walk keys from node, assign the leaf
RECURSIVE unflattenSet(_, _, _)
unflattenSet(node, keys, value) ==
  LET key == keys[1]
      kvs == NodeProps(node) IN
  IF Len(keys) = 1 THEN WithProps(node, SetPair(kvs, key, parseValue(value)))
  ELSE
    LET held == NodeGet(kvs, key)
        child == IF Falsy(held) \/ held.t \notin {"object", "array"}
                 THEN Obj(<<>>) ELSE held
    IN WithProps(node, SetPair(kvs, key, unflattenSet(child, Tail(keys), value)))

\* the outer loop of unflatten over the entries of flatObj
RECURSIVE unflattenEntries(_, _)
unflattenEntries(entries, result) ==
  IF Len(entries) = 0 THEN result
  ELSE unflattenEntries(Tail(entries),
         unflattenSet(result, SplitDots(entries[1][1], <<>>), entries[1][2]))

\* unflatten(flatObj)
unflatten(flatObj) == unflattenEntries(flatObj, Obj(<<>>))

\* the flat object (own keys -> leaf) a sequence of pairs denotes
AsFlatObject(pairs) ==
  [p \in {pairs[i][1] : i \in 1..Len(pairs)} |->
     pairs[CHOOSE i \in 1..Len(pairs) : pairs[i][1] = p][2]]

(***************************************************************************)
(* The inputs of the session model                                         *)
(***************************************************************************)
Sessions == {"s1", "s2"}

PathA == <<"a">>
PathB == <<"b">>

ObjIdX == <<"x">>
ObjIdY == <<"y">>
ObjIds == {ObjIdX, ObjIdY}

\* this.currentObjId === null, and the objId = null default of deleteObject
NullObjId == <<"null">>

\* ids passed to use(): the valid ones and the empty string
UseIds == ObjIds \cup {<<>>}

\* paths passed to get/set/delete: valid ones and one with a trailing dot
ValidPaths == {PathA, ConstructorName}
CallPaths == ValidPaths \cup {<<"a", ".">>}

\* values passed to set()
SetValues == {Undefined} \cup {Num(n) : n \in 1..MaxNum}

\* the (path, value) arguments of set() in Spec: every value at the path a,
\* undefined and one number at the inherited name, one number at the
\* malformed path
SetCalls ==
  {<<PathA, value>> : value \in SetValues}
    \cup {<<ConstructorName, value>> : value \in {Undefined, Num(1)}}
    \cup {<<path, Num(1)>> : path \in CallPaths \ ValidPaths}

\* objects passed to setAll()
SetAllObjects ==
  {Obj(<<>>)} \cup {Obj(<<<<PathA, Num(n)>>>>) : n \in 1..MaxNum}
              \cup {Obj(<<<<PathA, Null>>>>)}

(***************************************************************************)
(* State                                                                   *)
(***************************************************************************)
VARIABLES
  store,             \* the table: obj_id -> (key_path -> [value, type])
  currentObjId,      \* per session: this.currentObjId
  flatData,          \* per session: this.flatData
  originalFlatData,  \* per session: this.originalFlatData (the snapshot)
  dirtyPaths,        \* per session: this.dirtyPaths
  deletedPaths,      \* per session: this.deletedPaths
  batch,             \* per session: the statements its last call built, if it was save()
  last,              \* per session: its last call, with result or error
  touched,           \* per session: paths passed to set/delete since use()
  calls,             \* per session: set/delete calls since use(), counted in SpecTwo
  nested,            \* SpecFlat: the nested value given to flatten
  flattened,         \* SpecFlat: flatten(nested), once computed
  restored,          \* SpecFlat: unflatten(flat), once computed
  stage,             \* SpecFlat: "input", "flattened", "unflattened" ("idle" elsewhere)
  allocs,            \* arrays and objects created so far (by the caller or by use())
  held,              \* the value in the caller's variable (`const arr = mask.get(...)`)
  givenOld,          \* SpecChanged: the first argument of hasValueChanged
  givenNew,          \* SpecChanged: the second argument of hasValueChanged
  changed,           \* SpecChanged: what hasValueChanged returned (undefined before the call)
  pending            \* per session: the save() that awaits d1.batch, if any

sessionVars == <<currentObjId, flatData, originalFlatData, dirtyPaths, deletedPaths>>

codecVars == <<nested, flattened, restored, stage>>

callerVars == <<allocs, held>>

compareVars == <<givenOld, givenNew, changed>>

vars == <<store, currentObjId, flatData, originalFlatData, dirtyPaths,
          deletedPaths, batch, last, touched, calls, nested, flattened, restored,
          stage, allocs, held, givenOld, givenNew, changed, pending>>

NoArg == <<"-">>

Call(op, arg, val, err, errId) ==
  [op |-> op, arg |-> arg, val |-> val, err |-> err, errId |-> errId]

Returned(op, arg, val) == Call(op, arg, val, "none", NullObjId)

NoBatch == [deletes |-> {}, upserts |-> EmptyObject, sent |-> FALSE]

\* no save() awaits the store; while one does: the statements it passed to
\* d1.batch, the object id they are bound to, and the paths given to set()
\* or delete() since it was suspended
NoPending == [active |-> FALSE, statements |-> NoBatch, id |-> <<"null">>, raced |-> {}]

\* !x for an object id or null
FalsyId(objId) == objId = NullObjId \/ Len(objId) = 0

\* the identity of the array or object that the next allocation creates
\* for path (the empty path for a literal of the caller)
NewRef(path) == <<allocs, path>>

\* the rows SELECT ... WHERE obj_id = ? returns, decoded as use() does: each
\* JSON.parse creates a new array or object
LoadRows(rows) ==
  [p \in DOMAIN rows |->
     WithRef(fromStorageFormat(rows[p].value, rows[p].type), NewRef(p))]

\* a batch whose INSERT leaves a row that already exists as it is
ApplyBatchInsertOnly(rows, b) ==
  [p \in ((DOMAIN rows) \ b.deletes) \cup DOMAIN b.upserts |->
     IF p \in (DOMAIN rows) \ b.deletes THEN rows[p] ELSE b.upserts[p]]

\* the table after d1.batch(statements): every DELETE statement precedes
\* every upsert in the list, and the batch applies as a whole
ApplyBatch(rows, b) ==
  [p \in ((DOMAIN rows) \ b.deletes) \cup DOMAIN b.upserts |->
     IF p \in DOMAIN b.upserts THEN b.upserts[p] ELSE rows[p]]

\* a save() that deletes every path of the snapshot before its upserts
BuildBatchDeleteAll(flat, original, dirty, deleted) ==
  [deletes |-> Keys(original),
   upserts |-> [p \in dirty |-> toStorageFormat(GetProp(flat, p))],
   sent |-> FALSE]

\* the statements save() builds from the session state
BuildBatch(flat, original, dirty, deleted) ==
  [deletes |-> {p \in deleted : HasIn(original, p)},
   upserts |-> [p \in dirty |-> toStorageFormat(GetProp(flat, p))],
   sent |-> FALSE]

\* statements.length
StatementCount(b) == Cardinality(b.deletes) + Cardinality(DOMAIN b.upserts)

\* hasUnsavedChanges()
hasUnsavedChanges(s) ==
  Cardinality(dirtyPaths[s]) > 0 \/ Cardinality(deletedPaths[s]) > 0

CodecIdle ==
  /\ nested = Obj(<<>>)
  /\ flattened = <<>>
  /\ restored = Obj(<<>>)
  /\ stage = "idle"

\* no call of hasValueChanged yet
CompareIdle ==
  /\ givenOld = Undefined
  /\ givenNew = Undefined
  /\ changed = Undefined

\* the sessions right after construction
Constructed ==
  /\ currentObjId = [s \in Sessions |-> NullObjId]
  /\ flatData = [s \in Sessions |-> EmptyObject]
  /\ originalFlatData = [s \in Sessions |-> EmptyObject]
  /\ dirtyPaths = [s \in Sessions |-> {}]
  /\ deletedPaths = [s \in Sessions |-> {}]
  /\ batch = [s \in Sessions |-> NoBatch]
  /\ last = [s \in Sessions |-> Returned("new", NoArg, Undefined)]
  /\ touched = [s \in Sessions |-> {}]
  /\ calls = [s \in Sessions |-> 0]
  /\ pending = [s \in Sessions |-> NoPending]
  /\ allocs = 0
  /\ held = Undefined

Init ==
  /\ store = [id \in ObjIds |-> EmptyObject]
  /\ Constructed
  /\ CodecIdle
  /\ CompareIdle

(***************************************************************************)
(* Operations of a session                                                 *)
(***************************************************************************)
\* a call that throws before it reads or writes anything
Throws(s, call) ==
  /\ last' = [last EXCEPT ![s] = call]
  /\ batch' = [batch EXCEPT ![s] = NoBatch]
  /\ UNCHANGED <<store, sessionVars, touched>>

\* a use() whose failed SELECT leaves the rows of the previous object in place
UseFailedKeepsRows(s, objId) ==
  /\ UNCHANGED <<flatData, originalFlatData>>
  /\ last' = [last EXCEPT ![s] = Call("use", objId, Undefined, "store", objId)]

\* use() when the SELECT throws: flatData and the snapshot stay as the reset
\* left them, and the catch block rethrows naming objId
UseFailed(s, objId) ==
  /\ flatData' = [flatData EXCEPT ![s] = EmptyObject]
  /\ originalFlatData' = [originalFlatData EXCEPT ![s] = EmptyObject]
  /\ last' = [last EXCEPT ![s] = Call("use", objId, Undefined, "store", objId)]

\* a use() that keeps the dirty and deleted paths of the previous object
UseKeepsTrackers(s, objId, readOk) ==
  IF ~isValidObjId(objId) THEN
    Throws(s, Call("use", objId, Undefined, "invalid_id", objId))
  ELSE
    /\ currentObjId' = [currentObjId EXCEPT ![s] = objId]
    /\ touched' = [touched EXCEPT ![s] = {}]
    /\ flatData' = [flatData EXCEPT ![s] = LoadRows(store[objId])]
    /\ originalFlatData' = [originalFlatData EXCEPT ![s] = LoadRows(store[objId])]
    /\ last' = [last EXCEPT ![s] = Returned("use", objId, Undefined)]
    /\ batch' = [batch EXCEPT ![s] = NoBatch]
    /\ UNCHANGED <<store, dirtyPaths, deletedPaths>>

\* use(objId); readOk is whether the SELECT succeeds
Use(s, objId, readOk) ==
  IF ~isValidObjId(objId) THEN
    Throws(s, Call("use", objId, Undefined, "invalid_id", objId))
  ELSE
    /\ currentObjId' = [currentObjId EXCEPT ![s] = objId]
    /\ dirtyPaths' = [dirtyPaths EXCEPT ![s] = {}]
    /\ deletedPaths' = [deletedPaths EXCEPT ![s] = {}]
    /\ touched' = [touched EXCEPT ![s] = {}]
    /\ IF readOk THEN
         /\ flatData' = [flatData EXCEPT ![s] = LoadRows(store[objId])]
         /\ originalFlatData' = [originalFlatData EXCEPT ![s] = LoadRows(store[objId])]
         /\ last' = [last EXCEPT ![s] = Returned("use", objId, Undefined)]
       ELSE UseFailed(s, objId)
    /\ batch' = [batch EXCEPT ![s] = NoBatch]
    /\ UNCHANGED store

\* get(path)
Get(s, path) ==
  /\ last' = [last EXCEPT ![s] =
       IF ~isValidPath(path)
         THEN Call("get", path, Undefined, "invalid_path", NullObjId)
       ELSE IF FalsyId(currentObjId[s])
         THEN Call("get", path, Undefined, "no_object", NullObjId)
       ELSE Returned("get", path, GetProp(flatData[s], path))]
  /\ batch' = [batch EXCEPT ![s] = NoBatch]
  /\ UNCHANGED <<store, sessionVars, touched>>

\* a set() that also writes the row to the table
SetWriteThrough(s, path, value) ==
  IF ~isValidPath(path) THEN
    Throws(s, Call("set", path, value, "invalid_path", NullObjId))
  ELSE IF FalsyId(currentObjId[s]) THEN
    Throws(s, Call("set", path, value, "no_object", NullObjId))
  ELSE
    /\ deletedPaths' = [deletedPaths EXCEPT ![s] = @ \ {path}]
    /\ flatData' = [flatData EXCEPT ![s] = PutProp(@, path, value)]
    /\ dirtyPaths' = [dirtyPaths EXCEPT ![s] = @ \cup {path}]
    /\ store' = [store EXCEPT ![currentObjId[s]] =
                   PutProp(@, path, toStorageFormat(value))]
    /\ touched' = [touched EXCEPT ![s] = @ \cup {path}]
    /\ last' = [last EXCEPT ![s] = Returned("set", path, value)]
    /\ batch' = [batch EXCEPT ![s] = NoBatch]
    /\ UNCHANGED <<currentObjId, originalFlatData>>

\* set(path, value)
Set(s, path, value) ==
  IF ~isValidPath(path) THEN
    Throws(s, Call("set", path, value, "invalid_path", NullObjId))
  ELSE IF FalsyId(currentObjId[s]) THEN
    Throws(s, Call("set", path, value, "no_object", NullObjId))
  ELSE
    LET oldValue == GetProp(flatData[s], path) IN
    /\ deletedPaths' = [deletedPaths EXCEPT ![s] = @ \ {path}]
    /\ flatData' = [flatData EXCEPT ![s] = PutProp(@, path, value)]
    /\ dirtyPaths' = [dirtyPaths EXCEPT ![s] =
         IF ~StrictEquals(oldValue, value) THEN @ \cup {path} ELSE @]
    /\ touched' = [touched EXCEPT ![s] = @ \cup {path}]
    /\ last' = [last EXCEPT ![s] = Returned("set", path, value)]
    /\ batch' = [batch EXCEPT ![s] = NoBatch]
    /\ UNCHANGED <<store, currentObjId, originalFlatData>>

\* delete(path)
Delete(s, path) ==
  IF ~isValidPath(path) THEN
    Throws(s, Call("delete", path, Undefined, "invalid_path", NullObjId))
  ELSE IF FalsyId(currentObjId[s]) THEN
    Throws(s, Call("delete", path, Undefined, "no_object", NullObjId))
  ELSE
    /\ IF HasIn(flatData[s], path) THEN
         /\ flatData' = [flatData EXCEPT ![s] = DeleteProp(@, path)]
         /\ deletedPaths' = [deletedPaths EXCEPT ![s] = @ \cup {path}]
         /\ dirtyPaths' = [dirtyPaths EXCEPT ![s] = @ \ {path}]
       ELSE UNCHANGED <<flatData, deletedPaths, dirtyPaths>>
    /\ touched' = [touched EXCEPT ![s] = @ \cup {path}]
    /\ last' = [last EXCEPT ![s] = Returned("delete", path, Undefined)]
    /\ batch' = [batch EXCEPT ![s] = NoBatch]
    /\ UNCHANGED <<store, currentObjId, originalFlatData>>

\* a snapshot that is not refreshed from flatData
CopyOfNothing(obj) == EmptyObject

\* { ...this.flatData }
CopyOf(obj) == [p \in DOMAIN obj |-> obj[p]]

\* a save() that clears its trackers before it awaits the batch
SaveFailedAfterClearing(s, id) ==
  /\ last' = [last EXCEPT ![s] = Call("save", NoArg, Undefined, "store", id)]
  /\ dirtyPaths' = [dirtyPaths EXCEPT ![s] = {}]
  /\ deletedPaths' = [deletedPaths EXCEPT ![s] = {}]
  /\ UNCHANGED <<store, currentObjId, flatData, originalFlatData, touched>>

\* save() when d1.batch throws: the catch block rethrows naming the object
SaveFailed(s, id) ==
  /\ last' = [last EXCEPT ![s] = Call("save", NoArg, Undefined, "store", id)]
  /\ UNCHANGED <<store, sessionVars, touched>>

\* save(); batchOk is whether d1.batch succeeds when it is called
Save(s, batchOk) ==
  IF FalsyId(currentObjId[s]) THEN
    Throws(s, Call("save", NoArg, Undefined, "no_object", NullObjId))
  ELSE
    LET id == currentObjId[s]
        statements == BuildBatch(flatData[s], originalFlatData[s],
                                 dirtyPaths[s], deletedPaths[s])
        sent == StatementCount(statements) > 0
    IN
    /\ batch' = [batch EXCEPT ![s] = [statements EXCEPT !.sent = sent]]
    /\ IF sent /\ ~batchOk THEN SaveFailed(s, id)
       ELSE
         /\ store' = IF sent
                     THEN [store EXCEPT ![id] = ApplyBatch(@, statements)]
                     ELSE store
         /\ originalFlatData' = [originalFlatData EXCEPT ![s] = CopyOf(flatData[s])]
         /\ dirtyPaths' = [dirtyPaths EXCEPT ![s] = {}]
         /\ deletedPaths' = [deletedPaths EXCEPT ![s] = {}]
         /\ last' = [last EXCEPT ![s] = Returned("save", NoArg, Undefined)]
         /\ UNCHANGED <<currentObjId, flatData, touched>>

\* the first loop of setAll: every key of flatData becomes a deleted path
SetAllDeleted(flat, deleted) == deleted \cup Keys(flat)

\* setAll(obj)
SetAll(s, obj) ==
  IF FalsyId(currentObjId[s]) THEN
    Throws(s, Call("setAll", NoArg, obj, "no_object", NullObjId))
  ELSE
    LET newFlatData == AsFlatObject(flatten(obj)) IN
    /\ flatData' = [flatData EXCEPT ![s] = newFlatData]
    /\ dirtyPaths' = [dirtyPaths EXCEPT ![s] = @ \cup Keys(newFlatData)]
    /\ deletedPaths' = [deletedPaths EXCEPT ![s] =
         SetAllDeleted(flatData[s], @) \ Keys(newFlatData)]
    /\ last' = [last EXCEPT ![s] = Returned("setAll", NoArg, obj)]
    /\ batch' = [batch EXCEPT ![s] = NoBatch]
    /\ UNCHANGED <<store, currentObjId, originalFlatData, touched>>

\* a deleteObject() that removes the rows and keeps the session as it is
DeleteObjectKeepsSession(s, objId, runOk) ==
  LET targetObjId == IF FalsyId(objId) THEN currentObjId[s] ELSE objId IN
  IF FalsyId(targetObjId) THEN
    Throws(s, Call("deleteObject", objId, Undefined, "no_id", NullObjId))
  ELSE IF ~isValidObjId(targetObjId) THEN
    Throws(s, Call("deleteObject", objId, Undefined, "invalid_id", targetObjId))
  ELSE IF ~runOk THEN
    Throws(s, Call("deleteObject", objId, Undefined, "store", targetObjId))
  ELSE
    /\ store' = [store EXCEPT ![targetObjId] = EmptyObject]
    /\ last' = [last EXCEPT ![s] = Returned("deleteObject", objId, Undefined)]
    /\ batch' = [batch EXCEPT ![s] = NoBatch]
    /\ UNCHANGED <<sessionVars, touched>>

\* deleteObject(objId); runOk is whether the DELETE succeeds
DeleteObject(s, objId, runOk) ==
  LET targetObjId == IF FalsyId(objId) THEN currentObjId[s] ELSE objId IN
  IF FalsyId(targetObjId) THEN
    Throws(s, Call("deleteObject", objId, Undefined, "no_id", NullObjId))
  ELSE IF ~isValidObjId(targetObjId) THEN
    Throws(s, Call("deleteObject", objId, Undefined, "invalid_id", targetObjId))
  ELSE IF ~runOk THEN
    Throws(s, Call("deleteObject", objId, Undefined, "store", targetObjId))
  ELSE
    /\ store' = [store EXCEPT ![targetObjId] = EmptyObject]
    /\ IF targetObjId = currentObjId[s] THEN
         /\ currentObjId' = [currentObjId EXCEPT ![s] = NullObjId]
         /\ flatData' = [flatData EXCEPT ![s] = EmptyObject]
         /\ originalFlatData' = [originalFlatData EXCEPT ![s] = EmptyObject]
         /\ dirtyPaths' = [dirtyPaths EXCEPT ![s] = {}]
         /\ deletedPaths' = [deletedPaths EXCEPT ![s] = {}]
         /\ touched' = [touched EXCEPT ![s] = {}]
       ELSE UNCHANGED <<sessionVars, touched>>
    /\ last' = [last EXCEPT ![s] = Returned("deleteObject", objId, Undefined)]
    /\ batch' = [batch EXCEPT ![s] = NoBatch]

\* an exists() that answers from the session when objId is the loaded object
ExistsFromSession(s, objId, readOk) ==
  IF ~isValidObjId(objId) THEN
    Throws(s, Call("exists", objId, Undefined, "invalid_id", objId))
  ELSE IF ~readOk THEN
    Throws(s, Call("exists", objId, Undefined, "store", objId))
  ELSE
    /\ last' = [last EXCEPT ![s] =
         Returned("exists", objId,
                  IF objId = currentObjId[s]
                  THEN Bool(Cardinality(Keys(flatData[s])) > 0)
                  ELSE Bool(Cardinality(Keys(store[objId])) > 0))]
    /\ batch' = [batch EXCEPT ![s] = NoBatch]
    /\ UNCHANGED <<store, sessionVars, touched>>

\* exists(objId); readOk is whether the SELECT COUNT(*) succeeds
Exists(s, objId, readOk) ==
  IF ~isValidObjId(objId) THEN
    Throws(s, Call("exists", objId, Undefined, "invalid_id", objId))
  ELSE IF ~readOk THEN
    Throws(s, Call("exists", objId, Undefined, "store", objId))
  ELSE
    /\ last' = [last EXCEPT ![s] =
         Returned("exists", objId, Bool(Cardinality(Keys(store[objId])) > 0))]
    /\ batch' = [batch EXCEPT ![s] = NoBatch]
    /\ UNCHANGED <<store, sessionVars, touched>>

\* the elements of a finite set in some order
RECURSIVE SeqOf(_)
SeqOf(S) ==
  IF S = {} THEN <<>>
  ELSE LET x == CHOOSE x \in S : TRUE IN <<x>> \o SeqOf(S \ {x})

\* Object.entries(obj) of a flat object (the insertion order of the keys is
\* not kept by the model)
Entries(obj) ==
  LET ks == SeqOf(Keys(obj)) IN [i \in 1..Len(ks) |-> <<ks[i], obj[ks[i]]>>]

\* a getAll() that does not test this.currentObjId
GetAllUnchecked(s) ==
  /\ last' = [last EXCEPT ![s] =
       Returned("getAll", NoArg, unflatten(Entries(flatData[s])))]
  /\ batch' = [batch EXCEPT ![s] = NoBatch]
  /\ UNCHANGED <<store, sessionVars, touched>>

\* getAll()
GetAll(s) ==
  IF FalsyId(currentObjId[s]) THEN
    Throws(s, Call("getAll", NoArg, Undefined, "no_object", NullObjId))
  ELSE
    /\ last' = [last EXCEPT ![s] =
         Returned("getAll", NoArg, unflatten(Entries(flatData[s])))]
    /\ batch' = [batch EXCEPT ![s] = NoBatch]
    /\ UNCHANGED <<store, sessionVars, touched>>

\* the value of this.currentObjId as a JavaScript value
IdValue(objId) == IF objId = NullObjId THEN Null ELSE Str(objId)

\* getCurrentObjId()
GetCurrentObjId(s) ==
  /\ last' = [last EXCEPT ![s] =
       Returned("getCurrentObjId", NoArg, IdValue(currentObjId[s]))]
  /\ batch' = [batch EXCEPT ![s] = NoBatch]
  /\ UNCHANGED <<store, sessionVars, touched>>

\* hasUnsavedChanges() as a call
HasUnsavedChanges(s) ==
  /\ last' = [last EXCEPT ![s] =
       Returned("hasUnsavedChanges", NoArg, Bool(hasUnsavedChanges(s)))]
  /\ batch' = [batch EXCEPT ![s] = NoBatch]
  /\ UNCHANGED <<store, sessionVars, touched>>

(***************************************************************************)
(* Spec: one session, every operation, every outcome of the store          *)
(***************************************************************************)
\* what a call on a session leaves alone.  No array or object is stored or
\* passed in Spec, so no allocation is counted here.
sessionFrame ==
  <<calls, nested, flattened, restored, stage, allocs, held, compareVars, pending>>

Next ==
  \/ \E objId \in {ObjIdX, <<>>}, readOk \in BOOLEAN :
       Use("s1", objId, readOk) /\ UNCHANGED sessionFrame
  \/ \E path \in CallPaths :
       Get("s1", path) /\ UNCHANGED sessionFrame
  \/ \E call \in SetCalls :
       Set("s1", call[1], call[2]) /\ UNCHANGED sessionFrame
  \/ \E path \in CallPaths :
       Delete("s1", path) /\ UNCHANGED sessionFrame
  \/ \E batchOk \in BOOLEAN :
       Save("s1", batchOk) /\ UNCHANGED sessionFrame
  \/ \E obj \in SetAllObjects :
       SetAll("s1", obj) /\ UNCHANGED sessionFrame
  \/ \E objId \in {ObjIdX, NullObjId}, runOk \in BOOLEAN :
       DeleteObject("s1", objId, runOk) /\ UNCHANGED sessionFrame

Spec == Init /\ [][Next]_vars

(***************************************************************************)
(* Properties of one session (Spec)                                        *)
(***************************************************************************)
Succeeded(call, op) == call.op = op /\ call.err = "none"

\* C1: in every reachable state of a session no path is in both the dirty
\* set and the deleted set.
C1_DirtyDeletedDisjoint ==
  \A s \in Sessions : dirtyPaths[s] \cap deletedPaths[s] = {}

\* C2: after setAll(obj) followed by a successful save(), the paths stored
\* for the object id are exactly the keys of flatten(obj), whatever calls
\* preceded the setAll.
C2_SetAllReplaces ==
  [][\A s \in Sessions :
       (Succeeded(last[s], "setAll") /\ Succeeded(last'[s], "save"))
         => Keys(store'[currentObjId[s]]) = Keys(AsFlatObject(flatten(last[s].val)))
    ]_vars

\* C3: a save() that fails in the store batch leaves currentObjId, flatData,
\* the snapshot, dirty and deleted (and the table) as they were and raises an
\* error naming the object id; the save() that then succeeds applies the
\* very batch the failed one had built.
C3_FailedSaveKeepsState ==
  [][\A s \in Sessions :
       /\ (last'[s].op = "save" /\ last'[s].err = "store")
            => /\ currentObjId'[s] = currentObjId[s]
               /\ flatData'[s] = flatData[s]
               /\ originalFlatData'[s] = originalFlatData[s]
               /\ dirtyPaths'[s] = dirtyPaths[s]
               /\ deletedPaths'[s] = deletedPaths[s]
               /\ store' = store
               /\ last'[s].errId = currentObjId[s]
       /\ (last[s].op = "save" /\ last[s].err = "store" /\ Succeeded(last'[s], "save"))
            => store' = [store EXCEPT ![currentObjId[s]] = ApplyBatch(@, batch[s])]
    ]_vars

C3_Witness ==
  /\ last["s1"].op = "save"
  /\ last["s1"].err = "store"
  /\ last["s1"].errId = ObjIdX
  /\ dirtyPaths["s1"] # {}
  /\ deletedPaths["s1"] # {}
  /\ batch["s1"].sent

\* C4: after every successful save() the snapshot has the paths and values
\* of flatData, and dirty and deleted are empty.
C4_SaveResetsTracking ==
  \A s \in Sessions :
    Succeeded(last[s], "save") =>
      /\ originalFlatData[s] = flatData[s]
      /\ dirtyPaths[s] = {}
      /\ deletedPaths[s] = {}

C4_Witness ==
  /\ Succeeded(last["s1"], "save")
  /\ batch["s1"].sent
  /\ batch["s1"].deletes # {}
  /\ Keys(flatData["s1"]) # {}

\* C5 as claimed: hasUnsavedChanges() is false after a load, true after one
\* set(path, value) for any valid path and any value, false after a
\* successful save().
C5_AnySetMarksUnsaved ==
  [][\A s \in Sessions :
       /\ Succeeded(last'[s], "use") => ~hasUnsavedChanges(s)'
       /\ (Succeeded(last[s], "use") /\ Succeeded(last'[s], "set"))
            => hasUnsavedChanges(s)'
       /\ Succeeded(last'[s], "save") => ~hasUnsavedChanges(s)'
    ]_vars

\* C5 (amended): hasUnsavedChanges() is false after a load, true after one
\* set(path, value) whose value is not identical to the value the session
\* reads at path before the call, false after a successful save().
C5_ChangingSetMarksUnsaved ==
  [][\A s \in Sessions :
       /\ Succeeded(last'[s], "use") => ~hasUnsavedChanges(s)'
       /\ (/\ Succeeded(last[s], "use")
           /\ Succeeded(last'[s], "set")
           /\ GetProp(flatData[s], last'[s].arg) # last'[s].val)
            => hasUnsavedChanges(s)'
       /\ Succeeded(last'[s], "save") => ~hasUnsavedChanges(s)'
    ]_vars

C5_Witness ==
  /\ Succeeded(last["s1"], "set")
  /\ touched["s1"] = {PathA}
  /\ PathA \in Keys(originalFlatData["s1"])
  /\ flatData["s1"][PathA] # originalFlatData["s1"][PathA]
  /\ hasUnsavedChanges("s1")

\* C6: deleting a valid path that is not in the snapshot and then calling
\* save() puts no delete operation for that path in the batch.
C6_NoDeleteForUnpersisted ==
  [][\A s \in Sessions :
       (/\ Succeeded(last[s], "delete")
        /\ last[s].arg \notin Keys(originalFlatData[s])
        /\ last'[s].op = "save")
         => last[s].arg \notin batch'[s].deletes
    ]_vars

\* C9: set(path, undefined) followed by a successful save() and a reload of
\* the same object id yields get(path) === null, for every valid path.
\* (A path whose own value in flatData is undefined got it from
\* set(path, undefined): neither use() nor setAll() stores undefined.)
C9_UndefinedReloadsAsNull ==
  [][\A s \in Sessions : \A path \in ValidPaths :
       (/\ Succeeded(last[s], "save")
        /\ path \in Keys(flatData[s])
        /\ flatData[s][path] = Undefined
        /\ Succeeded(last'[s], "use")
        /\ last'[s].arg = currentObjId[s])
         => GetProp(flatData'[s], path) = Null
    ]_vars

(***************************************************************************)
(* SpecTwo: two sessions on the same object id.  Each loads once, makes up *)
(* to MaxCalls set/delete calls and saves once, in every interleaving.     *)
(* The table starts with the rows an earlier session left, and the store   *)
(* does not fail.                                                          *)
(***************************************************************************)
\* rows of the object before the two sessions start
EarlierRows ==
  {EmptyObject, [p \in {PathA} |-> toStorageFormat(Num(1))]}

InitTwo ==
  /\ store \in {[id \in ObjIds |-> IF id = ObjIdX THEN rows ELSE EmptyObject] :
                  rows \in EarlierRows}
  /\ Constructed
  /\ CodecIdle
  /\ CompareIdle

Loaded(s) == last[s].op \in {"use", "set", "delete"}

LoadTwo(s) ==
  /\ last[s].op = "new"
  /\ Use(s, ObjIdX, TRUE)
  /\ UNCHANGED <<calls, codecVars, compareVars, pending, callerVars>>

MutateTwo(s) ==
  /\ Loaded(s)
  /\ calls[s] < MaxCalls
  /\ \/ \E path \in ValidPaths, value \in SetValues : Set(s, path, value)
     \/ \E path \in ValidPaths : Delete(s, path)
  /\ calls' = [calls EXCEPT ![s] = @ + 1]
  /\ UNCHANGED <<codecVars, compareVars, pending, callerVars>>

SaveTwo(s) ==
  /\ Loaded(s)
  /\ Save(s, TRUE)
  /\ UNCHANGED <<calls, codecVars, compareVars, pending, callerVars>>

NextTwo ==
  \/ \E s \in Sessions : LoadTwo(s)
  \/ \E s \in Sessions : MutateTwo(s)
  \/ \E s \in Sessions : SaveTwo(s)

SpecTwo == InitTwo /\ [][NextTwo]_vars

(***************************************************************************)
(* Properties of two sessions on one object (SpecTwo)                      *)
(***************************************************************************)
Other(s) == CHOOSE t \in Sessions : t # s

\* the table agrees with what session s holds at path: no row for a path it
\* does not hold, a row that reads back as its value for a path it holds
\* (a held undefined reads back as undefined or as null)
Reflected(s, path) ==
  LET rows == store[currentObjId[s]] IN
  IF path \notin Keys(flatData[s]) THEN path \notin Keys(rows)
  ELSE IF flatData[s][path] = Undefined THEN
    path \in Keys(rows) => fromStorageFormat(rows[path].value, rows[path].type) = Null
  ELSE
    /\ path \in Keys(rows)
    /\ fromStorageFormat(rows[path].value, rows[path].type) = flatData[s][path]

\* C7: two sessions load the same object id, mutate disjoint sets of paths
\* with set/delete and both save, in any interleaving: the table then holds
\* the loaded state with both sessions' changes applied, i.e. it agrees with
\* each session on every path the other session did not touch.
C7_NoLostUpdate ==
  (/\ \A s \in Sessions : Succeeded(last[s], "save") /\ currentObjId[s] = ObjIdX
   /\ touched["s1"] \cap touched["s2"] = {})
    => \A s \in Sessions : \A path \in ValidPaths :
         path \notin touched[Other(s)] => Reflected(s, path)

\* session s has set path to a value that differs from the one session t set
SetDifferently(s, t, path) ==
  /\ path \in touched[s] \cap touched[t]
  /\ path \in Keys(flatData[s]) \cap Keys(flatData[t])
  /\ flatData[s][path] # flatData[t][path]

\* C8 as claimed: two sessions loaded on the same object id set the same
\* path to different values and both save: the value finally stored at the
\* path is the one set by the session whose save() completed last.
C8_LastSaverWins ==
  [][\A s \in Sessions : \A path \in ValidPaths :
       (/\ Succeeded(last[Other(s)], "save")
        /\ SetDifferently(s, Other(s), path)
        /\ Loaded(s)
        /\ Succeeded(last'[s], "save"))
         => /\ path \in Keys(store'[ObjIdX])
            /\ store'[ObjIdX][path] = toStorageFormat(flatData[s][path])
    ]_vars

\* C8 (amended): two sessions loaded on the same object id set the same
\* path to different values and both save: the value finally stored at the
\* path is the one set by the session whose save() completed last, provided
\* the path is dirty in that session when it saves.
C8_LastDirtySaverWins ==
  [][\A s \in Sessions : \A path \in ValidPaths :
       (/\ Succeeded(last[Other(s)], "save")
        /\ SetDifferently(s, Other(s), path)
        /\ Loaded(s)
        /\ path \in dirtyPaths[s]
        /\ Succeeded(last'[s], "save"))
         => /\ path \in Keys(store'[ObjIdX])
            /\ store'[ObjIdX][path] = toStorageFormat(flatData[s][path])
    ]_vars

C8_Witness ==
  /\ \A s \in Sessions : Succeeded(last[s], "save")
  /\ SetDifferently("s1", "s2", PathA)
  /\ \A s \in Sessions : PathA \in DOMAIN batch[s].upserts
  /\ batch["s1"].upserts[PathA] = toStorageFormat(Num(1))
  /\ store[ObjIdX][PathA] = toStorageFormat(Num(2))
  /\ flatData["s2"][PathA] = Num(2)

(***************************************************************************)
(* SpecFlat: flatten a nested object, then unflatten the result            *)
(***************************************************************************)
\* leaves of the nested objects: every JSON type, no undefined
Leaves ==
  {Null, Bool(TRUE), Obj(<<>>), Arr(<<>>), Arr(<<Num(1), Num(2)>>),
   Str(EmptyText), Str(<<"a">>), Str(EmptyObjectText),
   Str(<<"[", "1", ",", "2", "]">>)} \cup {Num(n) : n \in 1..MaxNum}

\* values nested at most d objects deep, one key per inner object
RECURSIVE NestedValues(_)
NestedValues(d) ==
  IF d = 0 THEN Leaves
  ELSE Leaves \cup {Obj(<<<<k, v>>>>) : k \in {PathA, PathB},
                                       v \in NestedValues(d - 1)}

\* the objects given to flatten: up to two keys at the top
NestedInputs ==
  LET inner == NestedValues(MaxDepth - 1) IN
  {Obj(<<>>)} \cup {Obj(<<<<k, v>>>>) : k \in {PathA, PathB}, v \in inner}
              \cup {Obj(<<<<PathA, v>>, <<PathB, w>>>>) : v \in inner, w \in inner}

RECURSIVE DeepEquals(_, _)
\* deep equality: arrays element by element, objects key by key
DeepEquals(x, y) ==
  IF x.t # y.t THEN FALSE
  ELSE IF x.t = "array" THEN
    /\ Len(x.v) = Len(y.v)
    /\ NodeProps(x) = NodeProps(y)
    /\ \A i \in 1..Len(x.v) : DeepEquals(x.v[i], y.v[i])
  ELSE IF x.t = "object" THEN
    LET xs == {x.v[i][1] : i \in 1..Len(x.v)}
        ys == {y.v[i][1] : i \in 1..Len(y.v)} IN
    /\ xs = ys
    /\ \A k \in xs : DeepEquals(NodeGet(x.v, k), NodeGet(y.v, k))
  ELSE x = y

InitFlat ==
  /\ store = [id \in ObjIds |-> EmptyObject]
  /\ Constructed
  /\ nested \in NestedInputs
  /\ flattened = <<>>
  /\ restored = Obj(<<>>)
  /\ stage = "input"
  /\ CompareIdle

DoFlatten ==
  /\ stage = "input"
  /\ flattened' = flatten(nested)
  /\ stage' = "flattened"
  /\ UNCHANGED <<nested, restored>>
  /\ UNCHANGED <<store, sessionVars, batch, last, touched, calls, callerVars,
                 compareVars, pending>>

DoUnflatten ==
  /\ stage = "flattened"
  /\ restored' = unflatten(flattened)
  /\ stage' = "unflattened"
  /\ UNCHANGED <<nested, flattened>>
  /\ UNCHANGED <<store, sessionVars, batch, last, touched, calls, callerVars,
                 compareVars, pending>>

NextFlat == DoFlatten \/ DoUnflatten

SpecFlat == InitFlat /\ [][NextFlat]_vars

\* C10: for every JSON-representable nested object v without undefined
\* leaves (string leaves "", "{}" and "[1,2]", null, array and empty-object
\* leaves included), unflatten(flatten(v)) deep-equals v.
C10_RoundTrip == stage = "unflattened" => DeepEquals(restored, nested)

(***************************************************************************)
(* SpecTyped: one session stores values of every type.  It loads, makes up *)
(* to MaxCalls set calls, saves and loads again; the store does not fail.  *)
(***************************************************************************)
\* values of type string, number, boolean, null, array and object
TypedValues ==
  {Str(EmptyText), Str(<<"a">>), Str(<<"1">>), Str(TrueText),
   Bool(TRUE), Bool(FALSE), Null,
   Arr(<<>>), Arr(<<Num(1), Num(2)>>), Arr(<<Str(<<"a">>), Null>>),
   Obj(<<>>), Obj(<<<<PathA, Num(1)>>>>),
   Obj(<<<<PathA, Obj(<<<<PathB, Num(1)>>>>)>>>>)}
  \cup {Num(n) : n \in 0..MaxNum}

TypedPaths == {PathA, PathB}

\* creating an array or object counts as an allocation
Allocates(value) == value.t \in {"array", "object"}

InitTyped == Init

LoadTyped(s) ==
  /\ last[s].op \in {"new", "save"}
  /\ Use(s, ObjIdX, TRUE)
  /\ allocs' = allocs + 1
  /\ UNCHANGED <<calls, codecVars, compareVars, pending, held>>

SetTyped(s) ==
  /\ last[s].op \in {"use", "set"}
  /\ calls[s] < MaxCalls
  /\ \E path \in TypedPaths, value \in TypedValues :
       /\ Set(s, path, WithRef(value, NewRef(<<>>)))
       /\ allocs' = IF Allocates(value) THEN allocs + 1 ELSE allocs
  /\ calls' = [calls EXCEPT ![s] = @ + 1]
  /\ UNCHANGED <<codecVars, compareVars, pending, held>>

SaveTyped(s) ==
  /\ last[s].op = "set"
  /\ Save(s, TRUE)
  /\ UNCHANGED <<calls, codecVars, compareVars, pending, callerVars>>

NextTyped ==
  \/ LoadTyped("s1")
  \/ SetTyped("s1")
  \/ SaveTyped("s1")

SpecTyped == InitTyped /\ [][NextTyped]_vars

\* C11: for every value v of type string, number, boolean, null, array or
\* object, set(path, v), a successful save() and a reload of the same id
\* yield get(path) equal to v with the same type.
C11_TypedValuesReload ==
  [][\A s \in Sessions : \A path \in TypedPaths :
       (/\ Succeeded(last[s], "save")
        /\ path \in touched[s] \cap Keys(flatData[s])
        /\ Succeeded(last'[s], "use")
        /\ last'[s].arg = currentObjId[s])
         => DeepEquals(GetProp(flatData'[s], path), flatData[s][path])
    ]_vars

(***************************************************************************)
(* SpecArr: the caller keeps the array that get() returned, changes it in  *)
(* place and passes it back.  The object has one array row from an earlier *)
(* session; the store does not fail.                                       *)
(***************************************************************************)
\* the array row an earlier session saved
ItemsRows == [p \in {PathA} |-> toStorageFormat(Arr(<<Num(1)>>))]

InitArr ==
  /\ store = [id \in ObjIds |-> IF id = ObjIdX THEN ItemsRows ELSE EmptyObject]
  /\ Constructed
  /\ CodecIdle
  /\ CompareIdle

\* arr.push(e)
Pushed(arr, e) == [arr EXCEPT !.v = Append(@, e)]

\* a flat object after arr.push(e): every property that is the array with
\* identity ref shows the new element
PushAliases(obj, ref, e) ==
  [p \in DOMAIN obj |->
     IF "ref" \in DOMAIN obj[p] /\ obj[p].ref = ref
     THEN Pushed(obj[p], e) ELSE obj[p]]

LoadArr(s) ==
  /\ last[s].op \in {"new", "save"}
  /\ allocs < MaxAllocs
  /\ Use(s, ObjIdX, TRUE)
  /\ allocs' = allocs + 1
  /\ UNCHANGED <<calls, codecVars, compareVars, pending, held>>

\* const arr = mask.get('a')
GetArr(s) ==
  /\ last[s].op \in {"use", "set"}
  /\ Get(s, PathA)
  /\ held' = GetProp(flatData[s], PathA)
  /\ UNCHANGED <<calls, codecVars, compareVars, pending, allocs>>

\* arr.push(e) on the array the caller holds: flatData and the snapshot
\* reference the same array
PushArr(s) ==
  /\ last[s].op = "get"
  /\ held.t = "array"
  /\ calls[s] < MaxCalls
  /\ \E n \in 1..MaxNum :
       /\ held' = Pushed(held, Num(n))
       /\ flatData' = [flatData EXCEPT ![s] = PushAliases(@, held.ref, Num(n))]
       /\ originalFlatData' =
            [originalFlatData EXCEPT ![s] = PushAliases(@, held.ref, Num(n))]
  /\ calls' = [calls EXCEPT ![s] = @ + 1]
  /\ UNCHANGED <<store, currentObjId, dirtyPaths, deletedPaths, batch, last,
                 touched, codecVars, compareVars, pending, allocs>>

\* mask.set('a', arr) with the array the caller holds
SetHeldArr(s) ==
  /\ last[s].op = "get"
  /\ held.t = "array"
  /\ Set(s, PathA, held)
  /\ UNCHANGED <<calls, codecVars, compareVars, pending, callerVars>>

\* mask.set('a', [n]) with a new array
SetNewArr(s) ==
  /\ last[s].op \in {"use", "get"}
  /\ allocs < MaxAllocs
  /\ \E n \in 1..MaxNum : Set(s, PathA, WithRef(Arr(<<Num(n)>>), NewRef(<<>>)))
  /\ allocs' = allocs + 1
  /\ UNCHANGED <<calls, codecVars, compareVars, pending, held>>

SaveArr(s) ==
  /\ last[s].op = "set"
  /\ Save(s, TRUE)
  /\ UNCHANGED <<calls, codecVars, compareVars, pending, callerVars>>

NextArr ==
  \/ LoadArr("s1")
  \/ GetArr("s1")
  \/ PushArr("s1")
  \/ SetHeldArr("s1")
  \/ SetNewArr("s1")
  \/ SaveArr("s1")

SpecArr == InitArr /\ [][NextArr]_vars

\* C12: when the caller passes the array it got from get(path), modified in
\* place, back with set(path, arr) and save() succeeds, the store row for
\* path holds the modified array.
C12_ModifiedArraySaved ==
  [][\A s \in Sessions :
       (/\ Succeeded(last[s], "set")
        /\ last[s].arg = PathA
        /\ held.t = "array"
        /\ last[s].val = held
        /\ Succeeded(last'[s], "save"))
         => /\ PathA \in Keys(store'[ObjIdX])
            /\ store'[ObjIdX][PathA] = toStorageFormat(held)
    ]_vars

(***************************************************************************)
(* SpecPaths: one session called with well-formed and malformed paths,     *)
(* before and after it has loaded an object                                *)
(***************************************************************************)
PathAB == <<"a", ".", "b">>

\* one path for every KeyPath rule: empty, leading and trailing whitespace,
\* leading and trailing dot, two dots in a row
MalformedPaths ==
  {<<>>, <<" ", "a">>, <<"a", " ">>, <<".", "a">>, <<"a", ".">>,
   <<"a", ".", ".", "b">>}

PathInputs == {PathA, PathAB} \cup MalformedPaths

InitPaths ==
  /\ store \in {[id \in ObjIds |-> IF id = ObjIdX THEN rows ELSE EmptyObject] :
                  rows \in EarlierRows}
  /\ Constructed
  /\ CodecIdle
  /\ CompareIdle

NextPaths ==
  \/ Use("s1", ObjIdX, TRUE) /\ UNCHANGED sessionFrame
  \/ \E path \in PathInputs :
       Get("s1", path) /\ UNCHANGED sessionFrame
  \/ \E path \in PathInputs, value \in {Num(n) : n \in 1..MaxNum} :
       Set("s1", path, value) /\ UNCHANGED sessionFrame
  \/ \E path \in PathInputs :
       Delete("s1", path) /\ UNCHANGED sessionFrame
  \/ Save("s1", TRUE) /\ UNCHANGED sessionFrame

SpecPaths == InitPaths /\ [][NextPaths]_vars

\* the KeyPath rules, as the specification words them
ViolatesKeyPath(path) ==
  \/ path = <<>>
  \/ Len(path) > 0 /\ (path[1] = " " \/ path[Len(path)] = " ")
  \/ Len(path) > 0 /\ (path[1] = "." \/ path[Len(path)] = ".")
  \/ \E i \in 1..(Len(path) - 1) : path[i] = "." /\ path[i + 1] = "."

\* C13: get, set and delete called with a path that violates the KeyPath
\* rules raise a validation error and leave currentObjId, flatData, the
\* snapshot, dirty, deleted and the store unchanged, whether or not an
\* object is loaded.
C13_MalformedPathRejected ==
  [][\A s \in Sessions :
       (/\ last'[s].op \in {"get", "set", "delete"}
        /\ ViolatesKeyPath(last'[s].arg))
         => /\ last'[s].err = "invalid_path"
            /\ UNCHANGED <<store, sessionVars>>
    ]_vars

C13_Witness ==
  /\ last["s1"].op = "set"
  /\ last["s1"].arg = <<"a", ".", ".", "b">>
  /\ last["s1"].err = "invalid_path"
  /\ currentObjId["s1"] = ObjIdX
  /\ dirtyPaths["s1"] # {}
  /\ deletedPaths["s1"] # {}

(***************************************************************************)
(* SpecIds: one session and two objects, called with well-formed and       *)
(* malformed object ids; the store does not fail                           *)
(***************************************************************************)
\* an id of 256 characters
LongId == [i \in 1..256 |-> "x"]

\* one id for every ObjectId rule: empty, leading and trailing whitespace,
\* longer than 255
MalformedIds == {<<>>, <<" ", "x">>, <<"x", " ">>, LongId}

IdInputs == ObjIds \cup MalformedIds

InitIds ==
  /\ store \in {[id \in ObjIds |-> IF id = ObjIdX THEN rows ELSE other] :
                  rows \in EarlierRows, other \in EarlierRows}
  /\ Constructed
  /\ CodecIdle
  /\ CompareIdle

NextIds ==
  \/ \E objId \in IdInputs :
       Use("s1", objId, TRUE) /\ UNCHANGED sessionFrame
  \/ \E value \in {Num(n) : n \in 1..MaxNum} :
       Set("s1", PathA, value) /\ UNCHANGED sessionFrame
  \/ Delete("s1", PathA) /\ UNCHANGED sessionFrame
  \/ \E obj \in {Obj(<<>>), Obj(<<<<PathA, Num(1)>>>>)} :
       SetAll("s1", obj) /\ UNCHANGED sessionFrame
  \/ Save("s1", TRUE) /\ UNCHANGED sessionFrame
  \/ \E objId \in IdInputs :
       Exists("s1", objId, TRUE) /\ UNCHANGED sessionFrame
  \/ \E objId \in IdInputs \cup {NullObjId} :
       DeleteObject("s1", objId, TRUE) /\ UNCHANGED sessionFrame

SpecIds == InitIds /\ [][NextIds]_vars

\* the ObjectId rules, as the specification words them
ViolatesObjectId(objId) ==
  \/ objId = <<>>
  \/ Len(objId) > 0 /\ (objId[1] = " " \/ objId[Len(objId)] = " ")
  \/ Len(objId) > 255

\* C14: use, exists and deleteObject called with an id that violates the
\* ObjectId rules raise a validation error before any store read or delete
\* is issued and leave the session state (and the table) unchanged, also
\* when the session is active on some object.  (The error deleteObject
\* raises when it has no id at all counts as a validation error here.)
C14_MalformedIdRejected ==
  [][\A s \in Sessions :
       (/\ last'[s].op \in {"use", "exists", "deleteObject"}
        /\ ViolatesObjectId(last'[s].arg))
         => /\ last'[s].err \in {"invalid_id", "no_id"}
            /\ UNCHANGED <<store, sessionVars>>
    ]_vars

(***************************************************************************)
(* SpecIdle: one session with every operation that needs a loaded object,  *)
(* before the first load and after deleteObject() on the loaded object;    *)
(* the store does not fail                                                 *)
(***************************************************************************)
IdlePaths == {PathA, <<"a", ".">>}

InitIdle ==
  /\ store = [id \in ObjIds |->
                IF id = ObjIdX THEN [p \in {PathA} |-> toStorageFormat(Num(1))]
                ELSE EmptyObject]
  /\ Constructed
  /\ CodecIdle
  /\ CompareIdle

NextIdle ==
  \/ Use("s1", ObjIdX, TRUE) /\ UNCHANGED sessionFrame
  \/ \E path \in IdlePaths :
       Get("s1", path) /\ UNCHANGED sessionFrame
  \/ \E path \in IdlePaths, value \in {Num(n) : n \in 1..MaxNum} :
       Set("s1", path, value) /\ UNCHANGED sessionFrame
  \/ \E path \in IdlePaths :
       Delete("s1", path) /\ UNCHANGED sessionFrame
  \/ Save("s1", TRUE) /\ UNCHANGED sessionFrame
  \/ \E obj \in {Obj(<<>>), Obj(<<<<PathA, Num(1)>>>>)} :
       SetAll("s1", obj) /\ UNCHANGED sessionFrame
  \/ GetAll("s1") /\ UNCHANGED sessionFrame
  \/ GetCurrentObjId("s1") /\ UNCHANGED sessionFrame
  \/ HasUnsavedChanges("s1") /\ UNCHANGED sessionFrame
  \/ DeleteObject("s1", NullObjId, TRUE) /\ UNCHANGED sessionFrame

SpecIdle == InitIdle /\ [][NextIdle]_vars

\* the operations of a session other than load, exists and deleteObject
SessionOps ==
  {"get", "set", "delete", "save", "setAll", "getAll", "getCurrentObjId",
   "hasUnsavedChanges"}

C16_DeleteObjectClearsActive ==
  [][\A s \in Sessions :
       (Succeeded(last'[s], "deleteObject") /\ last'[s].arg \in ObjIds \cup {NullObjId})
         => IF last'[s].arg \in {currentObjId[s], NullObjId} THEN
              /\ store'[currentObjId[s]] = EmptyObject
              /\ currentObjId'[s] = NullObjId
              /\ flatData'[s] = EmptyObject
              /\ originalFlatData'[s] = EmptyObject
              /\ dirtyPaths'[s] = {}
              /\ deletedPaths'[s] = {}
            ELSE
              /\ store'[last'[s].arg] = EmptyObject
              /\ UNCHANGED sessionVars
    ]_vars

\* deleteObject() without an argument removed the loaded object x
C16_Witness ==
  /\ Succeeded(last["s1"], "deleteObject")
  /\ last["s1"].arg = NullObjId
  /\ currentObjId["s1"] = NullObjId
  /\ store[ObjIdX] = EmptyObject
  /\ store[ObjIdY] # EmptyObject

\* C17: after a successful load(id) from any session state, currentObjId is
\* id, flatData and the snapshot both equal the decoded store rows of id and
\* dirty and deleted are empty; the pending changes of the object loaded
\* before are discarded: a save() after the load writes nothing of them.
C17_LoadReplacesSession ==
  [][\A s \in Sessions :
       /\ Succeeded(last'[s], "use") =>
            LET id == last'[s].arg
                rows == store'[id] IN
            /\ currentObjId'[s] = id
            /\ Keys(flatData'[s]) = Keys(rows)
            /\ \A p \in Keys(rows) :
                 flatData'[s][p] = fromStorageFormat(rows[p].value, rows[p].type)
            /\ originalFlatData'[s] = flatData'[s]
            /\ dirtyPaths'[s] = {}
            /\ deletedPaths'[s] = {}
       /\ (Succeeded(last[s], "use") /\ last'[s].op = "save") =>
            /\ store' = store
            /\ ~batch'[s].sent
    ]_vars

\* y is loaded with its row while x keeps the rows it had
C17_Witness ==
  /\ Succeeded(last["s1"], "use")
  /\ last["s1"].arg = ObjIdY
  /\ currentObjId["s1"] = ObjIdY
  /\ PathA \in Keys(flatData["s1"])
  /\ PathA \in Keys(store[ObjIdX])
  /\ store[ObjIdX][PathA] # store[ObjIdY][PathA]

\* C18: exists(id) returns true exactly when the store holds at least one
\* row for id at the time of the call, whatever object the session has
\* loaded and whatever its unsaved changes are, and it leaves the session
\* state (and the table) unchanged.
C18_ExistsReadsStore ==
  [][\A s \in Sessions :
       Succeeded(last'[s], "exists") =>
         /\ last'[s].val = Bool(Keys(store[last'[s].arg]) # {})
         /\ UNCHANGED <<store, sessionVars>>
    ]_vars

\* exists('x') is true while the session on x has deleted its only path and
\* not saved
C18_Witness ==
  /\ Succeeded(last["s1"], "exists")
  /\ last["s1"].arg = ObjIdX
  /\ last["s1"].val = Bool(TRUE)
  /\ currentObjId["s1"] = ObjIdX
  /\ flatData["s1"] = EmptyObject
  /\ deletedPaths["s1"] # {}

\* C19: set, delete and setAll change only flatData, dirty and deleted: the
\* store, the snapshot and currentObjId are unchanged by them, so nothing
\* reaches the store until save() runs.
C19_MutatorsStayInMemory ==
  [][\A s \in Sessions :
       last'[s].op \in {"set", "delete", "setAll"}
         => /\ store' = store
            /\ originalFlatData'[s] = originalFlatData[s]
            /\ currentObjId'[s] = currentObjId[s]
    ]_vars

\* after set and delete calls the session differs from its snapshot and
\* from the table, which still has the row it started with
C19_Witness ==
  /\ Succeeded(last["s1"], "set")
  /\ currentObjId["s1"] = ObjIdX
  /\ PathA \in Keys(flatData["s1"]) \cap Keys(originalFlatData["s1"])
  /\ flatData["s1"][PathA] # originalFlatData["s1"][PathA]
  /\ store[ObjIdX][PathA] = toStorageFormat(originalFlatData["s1"][PathA])
  /\ dirtyPaths["s1"] = {PathA}

(***************************************************************************)
(* SpecSave: one session over two objects with two paths; d1.batch may     *)
(* fail                                                                    *)
(***************************************************************************)
SavePaths == {PathA, PathB}

InitSave ==
  /\ store = [id \in ObjIds |->
                IF id = ObjIdX THEN [p \in SavePaths |-> toStorageFormat(Num(1))]
                ELSE [p \in {PathA} |-> toStorageFormat(Num(1))]]
  /\ Constructed
  /\ CodecIdle
  /\ CompareIdle

NextSave ==
  \/ \E objId \in ObjIds :
       Use("s1", objId, TRUE) /\ UNCHANGED sessionFrame
  \/ \E path \in SavePaths, value \in {Num(n) : n \in 1..MaxNum} :
       Set("s1", path, value) /\ UNCHANGED sessionFrame
  \/ \E path \in SavePaths :
       Delete("s1", path) /\ UNCHANGED sessionFrame
  \/ \E obj \in {Obj(<<>>), Obj(<<<<PathA, Num(1)>>>>)} :
       SetAll("s1", obj) /\ UNCHANGED sessionFrame
  \/ \E batchOk \in BOOLEAN :
       Save("s1", batchOk) /\ UNCHANGED sessionFrame

SpecSave == InitSave /\ [][NextSave]_vars

\* the row of id at path: its columns, or "none" when there is no such row
RowAt(table, id, path) ==
  IF path \in Keys(table[id]) THEN table[id][path] ELSE [value |-> <<>>, type |-> "none"]

\* C20: a save() only touches store rows of the active object id whose path
\* is in dirty or deleted at the time of the call: every other row of that
\* id and every row of other ids is left unchanged.
C20_SaveWritesTrackedPathsOnly ==
  [][\A s \in Sessions :
       last'[s].op = "save" =>
         \A id \in ObjIds : \A path \in SavePaths \cup ValidPaths :
           (id # currentObjId[s] \/ path \notin dirtyPaths[s] \cup deletedPaths[s])
             => RowAt(store', id, path) = RowAt(store, id, path)
    ]_vars

\* a save() wrote a to x while b of x and the row of y stayed as loaded
C20_Witness ==
  /\ Succeeded(last["s1"], "save")
  /\ currentObjId["s1"] = ObjIdX
  /\ batch["s1"].sent
  /\ DOMAIN batch["s1"].upserts = {PathA}
  /\ store[ObjIdX][PathA] = toStorageFormat(Num(2))
  /\ store[ObjIdX][PathB] = toStorageFormat(Num(1))
  /\ store[ObjIdY][PathA] = toStorageFormat(Num(1))

\* whether the presence or the value of path differs between two flat objects
DiffersAt(flat, original, path) ==
  \/ (path \in Keys(flat)) # (path \in Keys(original))
  \/ /\ path \in Keys(flat) \cap Keys(original)
     /\ flat[path] # original[path]

\* C21: the batch built by save() is minimal: it holds at most one operation
\* per path, and it holds an operation for a path only if that path's
\* presence or value in flatData differs from the snapshot.
C21_BatchIsMinimal ==
  [][\A s \in Sessions :
       (last'[s].op = "save" /\ last'[s].err # "no_object") =>
         \A path \in batch'[s].deletes \cup DOMAIN batch'[s].upserts :
           /\ ~(path \in batch'[s].deletes /\ path \in DOMAIN batch'[s].upserts)
           /\ DiffersAt(flatData[s], originalFlatData[s], path)
    ]_vars

\* C22: when save() finds no delete operation and no upsert operation to
\* issue (dirty empty and no deleted path present in the snapshot), it makes
\* no call to the store, and it still succeeds and clears dirty and deleted.
C22_EmptySaveSkipsStore ==
  [][\A s \in Sessions :
       (/\ last'[s].op = "save"
        /\ ~FalsyId(currentObjId[s])
        /\ dirtyPaths[s] = {}
        /\ deletedPaths[s] \cap Keys(originalFlatData[s]) = {})
         => /\ ~batch'[s].sent
            /\ store' = store
            /\ Succeeded(last'[s], "save")
            /\ dirtyPaths'[s] = {}
            /\ deletedPaths'[s] = {}
    ]_vars

\* C23: set(path, value) removes path from deleted, stores value at path in
\* flatData, and adds path to dirty if and only if value is not identical to
\* the value previously held in flatData at path (absent counting as
\* undefined); it never removes a path from dirty.
C23_SetSemantics ==
  [][\A s \in Sessions :
       Succeeded(last'[s], "set") =>
         LET path == last'[s].arg
             value == last'[s].val
             previous == IF path \in Keys(flatData[s])
                         THEN flatData[s][path] ELSE Undefined
         IN
         /\ deletedPaths'[s] = deletedPaths[s] \ {path}
         /\ path \in Keys(flatData'[s])
         /\ flatData'[s][path] = value
         /\ \A other \in Keys(flatData[s]) \cup Keys(flatData'[s]) :
              other # path =>
                /\ other \in Keys(flatData[s]) \cap Keys(flatData'[s])
                /\ flatData'[s][other] = flatData[s][other]
         /\ dirtyPaths[s] \subseteq dirtyPaths'[s]
         /\ dirtyPaths'[s] \ dirtyPaths[s] \subseteq {path}
         /\ (path \in dirtyPaths'[s] \ dirtyPaths[s]) => previous # value
         /\ previous # value => path \in dirtyPaths'[s]
    ]_vars

\* C24: delete(path) on a path present in flatData removes it from flatData,
\* adds it to deleted and removes it from dirty; delete(path) on any valid
\* path that is absent from flatData (including names every JS object
\* inherits, such as 'constructor') changes nothing in flatData, dirty or
\* deleted.
C24_DeleteSemantics ==
  [][\A s \in Sessions :
       Succeeded(last'[s], "delete") =>
         LET path == last'[s].arg IN
         IF path \in Keys(flatData[s]) THEN
           /\ flatData'[s] = DeleteProp(flatData[s], path)
           /\ deletedPaths'[s] = deletedPaths[s] \cup {path}
           /\ dirtyPaths'[s] = dirtyPaths[s] \ {path}
         ELSE
           /\ flatData'[s] = flatData[s]
           /\ deletedPaths'[s] = deletedPaths[s]
           /\ dirtyPaths'[s] = dirtyPaths[s]
    ]_vars

(***************************************************************************)
(* SpecChanged: hasValueChanged applied to every pair of values            *)
(***************************************************************************)
\* a comparison that only tests identity
hasValueChangedByIdentity(oldValue, newValue) == ~StrictEquals(oldValue, newValue)

\* hasValueChanged(oldValue, newValue); JSON.stringify does not throw for
\* the acyclic values of the model
hasValueChanged(oldValue, newValue) ==
  IF StrictEquals(oldValue, newValue) THEN FALSE
  ELSE IF StrictEquals(oldValue, Null) \/ StrictEquals(oldValue, Undefined) THEN
    ~StrictEquals(newValue, Null) /\ ~StrictEquals(newValue, Undefined)
  ELSE IF StrictEquals(newValue, Null) \/ StrictEquals(newValue, Undefined) THEN
    ~StrictEquals(oldValue, Null) /\ ~StrictEquals(oldValue, Undefined)
  ELSE
    LET oldType == getValueType(oldValue)
        newType == getValueType(newValue) IN
    IF oldType # newType THEN TRUE
    ELSE IF oldType \in {"string", "number", "boolean"} THEN
      ~StrictEquals(oldValue, newValue)
    ELSE JSONStringify(oldValue) # JSONStringify(newValue)

\* the values compared: every type tag, equal and unequal values of each;
\* each array and object has its own identity, and two of them may hold the
\* same content
ComparedValues ==
  LET contents == <<Arr(<<>>), Arr(<<Num(1)>>), Arr(<<Num(1)>>),
                    Arr(<<Undefined>>), Arr(<<Null>>),
                    Obj(<<>>), Obj(<<<<PathA, Num(1)>>>>),
                    Obj(<<<<PathA, Num(1)>>>>), Obj(<<<<PathA, Num(2)>>>>)>>
  IN
  {Null, Undefined, Bool(TRUE), Bool(FALSE), Str(EmptyText), Str(<<"a">>),
   Str(<<"1">>)} \cup {Num(n) : n \in 0..MaxNum}
     \cup {WithRef(contents[i], <<i, <<>>>>) : i \in 1..Len(contents)}

InitChanged ==
  /\ store = [id \in ObjIds |-> EmptyObject]
  /\ Constructed
  /\ CodecIdle
  /\ givenOld \in ComparedValues
  /\ givenNew \in ComparedValues
  /\ changed = Undefined

DoCompare ==
  /\ changed = Undefined
  /\ changed' = Bool(hasValueChanged(givenOld, givenNew))
  /\ UNCHANGED <<givenOld, givenNew>>
  /\ UNCHANGED <<store, sessionVars, batch, last, touched, calls, codecVars,
                 callerVars, pending>>

SpecChanged == InitChanged /\ [][DoCompare]_vars

\* the tags of the primitive types with a value
PrimitiveTags == {"boolean", "number", "string"}

\* C25: hasValueChanged(old, new) returns false when old and new are
\* identical, true whenever their type tags differ (for every pair of tags
\* in {null, undefined, boolean, number, string, array, object}), strict
\* inequality for two values of the same primitive tag, and otherwise true
\* exactly when their JSON texts differ.
C25_HasValueChanged ==
  changed # Undefined =>
    changed.v =
      IF givenOld = givenNew THEN FALSE
      ELSE IF givenOld.t # givenNew.t THEN TRUE
      ELSE IF givenOld.t \in PrimitiveTags THEN givenOld # givenNew
      ELSE JSONStringify(givenOld) # JSONStringify(givenNew)

\* C25, amended: as above, except that null and undefined count as the same
\* absent value: the result is false when one argument is null and the other
\* undefined, and true when the tags differ in any other way.
C25_HasValueChangedNullish ==
  changed # Undefined =>
    changed.v =
      IF givenOld = givenNew THEN FALSE
      ELSE IF {givenOld.t, givenNew.t} = {"null", "undefined"} THEN FALSE
      ELSE IF givenOld.t # givenNew.t THEN TRUE
      ELSE IF givenOld.t \in PrimitiveTags THEN givenOld # givenNew
      ELSE JSONStringify(givenOld) # JSONStringify(givenNew)

\* null was compared with undefined and reported as unchanged
C25_Witness ==
  /\ givenOld = Null
  /\ givenNew = Undefined
  /\ changed = Bool(FALSE)

\* C26: for a single session with no other writer, after load(id), any
\* sequence of valid set, delete and setAll calls, and a successful save(),
\* the set of paths stored for id equals the key set of flatData (and of the
\* snapshot), so an immediate reload yields the same path set the session
\* held at save time.
C26_StoredPathsMatchSession ==
  [][\A s \in Sessions :
       Succeeded(last'[s], "save") =>
         /\ Keys(store'[currentObjId'[s]]) = Keys(flatData'[s])
         /\ Keys(store'[currentObjId'[s]]) = Keys(originalFlatData'[s])
         /\ Keys(LoadRows(store'[currentObjId'[s]])) = Keys(flatData'[s])
    ]_vars

(***************************************************************************)
(* SpecLoad: one session over two objects; the SELECT of use() may fail    *)
(***************************************************************************)
InitLoad ==
  /\ store = [id \in ObjIds |-> [p \in SavePaths |-> toStorageFormat(Num(1))]]
  /\ Constructed
  /\ CodecIdle
  /\ CompareIdle

NextLoad ==
  \/ \E objId \in ObjIds, readOk \in BOOLEAN :
       Use("s1", objId, readOk) /\ UNCHANGED sessionFrame
  \/ \E path \in SavePaths, value \in {Num(n) : n \in 1..MaxNum} :
       Set("s1", path, value) /\ UNCHANGED sessionFrame
  \/ \E path \in SavePaths :
       Delete("s1", path) /\ UNCHANGED sessionFrame
  \/ Save("s1", TRUE) /\ UNCHANGED sessionFrame

SpecLoad == InitLoad /\ [][NextLoad]_vars

\* C27: if use(id) with a valid id fails while reading the store, the
\* failure is raised naming id, and the session is left active on id with
\* empty flatData, empty snapshot and empty dirty/deleted: the previously
\* loaded object and its pending changes are already discarded, and a later
\* set plus save() writes to id (a successful save() writes every dirty path
\* to the rows of the active id and leaves the rows of every other id).
C27_FailedLoadLeavesEmptySession ==
  [][\A s \in Sessions :
       /\ (last'[s].op = "use" /\ last'[s].err = "store") =>
            /\ isValidObjId(last'[s].arg)
            /\ last'[s].errId = last'[s].arg
            /\ currentObjId'[s] = last'[s].arg
            /\ flatData'[s] = EmptyObject
            /\ originalFlatData'[s] = EmptyObject
            /\ dirtyPaths'[s] = {}
            /\ deletedPaths'[s] = {}
            /\ store' = store
       /\ (Succeeded(last[s], "set") /\ Succeeded(last'[s], "save")) =>
            /\ RowAt(store', currentObjId[s], last[s].arg) = toStorageFormat(last[s].val)
            /\ \A id \in ObjIds \ {currentObjId[s]} : store'[id] = store[id]
    ]_vars

\* use('y') failed, and set('a', 2) with save() wrote a to y: the session
\* holds a alone, the row b of y was never loaded and is still in the table
\* (a loaded b leaves the session only by a delete, whose save removes the
\* row), and x is as it was
C27_Witness ==
  /\ Succeeded(last["s1"], "save")
  /\ currentObjId["s1"] = ObjIdY
  /\ Keys(flatData["s1"]) = {PathA}
  /\ store[ObjIdY][PathA] = toStorageFormat(Num(2))
  /\ Keys(store[ObjIdY]) = SavePaths
  /\ store[ObjIdX] = [p \in SavePaths |-> toStorageFormat(Num(1))]

(***************************************************************************)
(* SpecAsync: save() in two steps.  It builds its statements and is        *)
(* suspended at `await this.d1.batch(statements)`; set() and delete() may  *)
(* run on the session before the batch settles and save() resumes.         *)
(***************************************************************************)
\* use(objId) while no save() is suspended
UseAsync(s, objId) ==
  /\ ~pending[s].active
  /\ Use(s, objId, TRUE)
  /\ UNCHANGED pending

\* the paths given to set() or delete() while save() is suspended
Raced(s, path) ==
  IF pending[s].active /\ Succeeded(last'[s], last'[s].op)
  THEN [pending EXCEPT ![s].raced = @ \cup {path}]
  ELSE pending

\* set(path, value), before or during a suspended save()
SetAsync(s, path, value) ==
  /\ Set(s, path, value)
  /\ pending' = Raced(s, path)

\* delete(path), before or during a suspended save()
DeleteAsync(s, path) ==
  /\ Delete(s, path)
  /\ pending' = Raced(s, path)

\* save() up to its await: with no statement it runs to its end at once,
\* otherwise it passes the statements to d1.batch and is suspended
SaveBegin(s) ==
  /\ ~pending[s].active
  /\ LET statements == BuildBatch(flatData[s], originalFlatData[s],
                                  dirtyPaths[s], deletedPaths[s])
     IN
     IF FalsyId(currentObjId[s]) \/ StatementCount(statements) = 0 THEN
       /\ Save(s, TRUE)
       /\ UNCHANGED pending
     ELSE
       /\ batch' = [batch EXCEPT ![s] = [statements EXCEPT !.sent = TRUE]]
       /\ pending' = [pending EXCEPT ![s] =
            [active |-> TRUE, statements |-> statements,
             id |-> currentObjId[s], raced |-> {}]]
       /\ last' = [last EXCEPT ![s] = Call("save", NoArg, Undefined, "pending", NullObjId)]
       /\ UNCHANGED <<store, sessionVars, touched>>

\* save() from the point d1.batch settles: on failure the catch block
\* rethrows; on success the snapshot is copied from flatData as it is now
\* and both sets are cleared
SaveEnd(s, batchOk) ==
  /\ pending[s].active
  /\ pending' = [pending EXCEPT ![s] = NoPending]
  /\ batch' = [batch EXCEPT ![s] = [pending[s].statements EXCEPT !.sent = TRUE]]
  /\ IF ~batchOk THEN SaveFailed(s, currentObjId[s])
     ELSE
       /\ store' = [store EXCEPT ![pending[s].id] = ApplyBatch(@, pending[s].statements)]
       /\ originalFlatData' = [originalFlatData EXCEPT ![s] = CopyOf(flatData[s])]
       /\ dirtyPaths' = [dirtyPaths EXCEPT ![s] = {}]
       /\ deletedPaths' = [deletedPaths EXCEPT ![s] = {}]
       /\ last' = [last EXCEPT ![s] = Returned("save", NoArg, Undefined)]
       /\ UNCHANGED <<currentObjId, flatData, touched>>

NextAsync ==
  \/ UseAsync("s1", ObjIdX) /\ UNCHANGED <<calls, codecVars, callerVars, compareVars>>
  \/ \E path \in SavePaths, value \in {Num(n) : n \in 1..MaxNum} :
       SetAsync("s1", path, value) /\ UNCHANGED <<calls, codecVars, callerVars, compareVars>>
  \/ \E path \in SavePaths :
       DeleteAsync("s1", path) /\ UNCHANGED <<calls, codecVars, callerVars, compareVars>>
  \/ SaveBegin("s1") /\ UNCHANGED <<calls, codecVars, callerVars, compareVars>>
  \/ \E batchOk \in BOOLEAN :
       SaveEnd("s1", batchOk) /\ UNCHANGED <<calls, codecVars, callerVars, compareVars>>

SpecAsync == InitSave /\ [][NextAsync]_vars

\* C28: a set(path, v) or delete(path) that runs on a session while its
\* save() is suspended awaiting the store batch is not lost: once that save()
\* completes, path is either persisted in the store with the mutation
\* applied or still recorded in dirty/deleted for the next save().
C28_RacingMutationNotLost ==
  [][\A s \in Sessions :
       (pending[s].active /\ Succeeded(last'[s], "save")) =>
         \A path \in pending[s].raced :
           \/ Reflected(s, path)'
           \/ path \in dirtyPaths'[s] \cup deletedPaths'[s]
    ]_vars

====
